---- MODULE Spec2Model ----
(***************************************************************************)
(* Lazy vectorization and retrieval pipeline of the RAG service            *)
(* (src/RAG/app/services.py, src/RAG/app/database.py, src/RAG/app/main.py).*)
(*                                                                         *)
(* State: the rag_files table (File Registry), the vector index, the three  *)
(* collaborator handles resolved at import time, and one record per        *)
(* request worker holding the position and the locals of the operation it  *)
(* runs.  Every await on a collaborator is a step of its own, so requests  *)
(* interleave exactly where the coroutines can be suspended.               *)
(*                                                                         *)
(* Timestamps are offsets in days from the present: NOW() is 0, a row      *)
(* touched two days ago has last_accessed -2.  When a day passes every     *)
(* stored timestamp moves one day back.  -MaxTime stands for MaxTime days  *)
(* ago or earlier, and cleanup is asked for retention periods below        *)
(* MaxTime, so that every comparison with the cutoff is exact.             *)
(***************************************************************************)
EXTENDS Integers, FiniteSets, Sequences, TLC

\* ---------------------------------------------------------------- bounds
MaxChunks == 2
MaxTime == 2

Files == {"f1", "f2"}
Workers == {"w1", "w2"}
Domains == {"legal", "finance"}
Sectors == {"saas"}
\* Retention periods cleanup is called with.
Days == 0..(MaxTime - 1)

\* What one behaviour explores: two requests racing on one document, a
\* batch of documents served one request at a time, or one document that
\* moves between domains.
Scopes ==
    {[files |-> {"f1"}, workers |-> Workers, domains |-> {"legal"}],
     [files |-> Files, workers |-> {"w1"}, domains |-> {"legal"}],
     [files |-> {"f1"}, workers |-> {"w1"}, domains |-> Domains]}

\* ------------------------------------------------------ program constants
\* Positional parameters Database.get_pending_files declares after self.
get_pending_files_params == 2
\* Positional arguments ensure_vectors_loaded passes to db.get_pending_files.
ensure_vectors_loaded_args == 3
\* rag_files.chunk_count of a freshly inserted row (column default).
DefaultChunkCount == 0
\* rag_files.last_accessed of a freshly inserted row (NULL): a value no
\* timestamp takes, timestamps being 0 or negative.
Null == 1
\* NOW() and datetime.utcnow(): the origin of the timestamps.
now == 0

VARIABLES
    scope,            \* the documents, workers and domains of this behaviour
    vector_index,     \* services.vector_index is not None
    google_ai_ready,  \* services._google_ai_ready
    supabase,         \* services.supabase is not None
    rag_files,        \* the rag_files table, by id
    vectors,          \* the records of the vector index
    task,             \* per worker: the operation in progress and its locals
    retrieval         \* the retrieval half of query_rag: request, index answer, result

vars == <<scope, vector_index, google_ai_ready, supabase, rag_files, vectors, task, retrieval>>

\* ------------------------------------------------------------- registry
NoRow ==
    [exists |-> FALSE, domain |-> "none", sector |-> "none",
     vector_status |-> "none", chunk_count |-> 0, last_accessed |-> Null]

\* Mutant: a conflicting row is replaced by the freshly inserted one.
register_row_replaces(row, domain, sector) ==
    [exists |-> TRUE, domain |-> domain, sector |-> sector,
     vector_status |-> "pending", chunk_count |-> DefaultChunkCount,
     last_accessed |-> Null]

\* INSERT ... VALUES (..., 'pending') ON CONFLICT (id) DO UPDATE SET
\* filename, storage_path, domain, sector, updated_at.
register_row(row, domain, sector) ==
    IF row.exists
    THEN [row EXCEPT !.domain = domain, !.sector = sector]
    ELSE [exists |-> TRUE, domain |-> domain, sector |-> sector,
          vector_status |-> "pending", chunk_count |-> DefaultChunkCount,
          last_accessed |-> Null]

\* Mutant: the UPDATE sets vector_status and forgets chunk_count.
update_vector_status_keeps_count(table, file_id, status, chunk_count) ==
    IF table[file_id].exists
    THEN [table EXCEPT ![file_id] =
            [@ EXCEPT !.vector_status = status, !.last_accessed = now]]
    ELSE table

\* UPDATE rag_files SET vector_status, chunk_count, last_accessed = NOW()
\* WHERE id = $3: no row, no change.
update_vector_status(table, file_id, status, chunk_count) ==
    IF table[file_id].exists
    THEN [table EXCEPT ![file_id] =
            [@ EXCEPT !.vector_status = status, !.chunk_count = chunk_count,
                      !.last_accessed = now]]
    ELSE table

\* DELETE FROM rag_files WHERE id = $1
delete_file(table, file_id) == [table EXCEPT ![file_id] = NoRow]

\* SELECT * WHERE vector_status = 'indexed' AND last_accessed < cutoff.
\* A NULL last_accessed compares to NULL and the row is not selected.
expired_ids(days) ==
    {f \in Files : /\ rag_files[f].exists
                   /\ rag_files[f].vector_status = "indexed"
                   /\ rag_files[f].last_accessed # Null
                   /\ rag_files[f].last_accessed < now - days}

\* ORDER BY last_accessed ASC: every order of the selected rows that is
\* ascending in last_accessed (ties in any order), as [id, chunk_count] rows.
get_expired_files(days) ==
    LET S == expired_ids(days)
        n == Cardinality(S)
    IN  {[i \in 1..n |-> [id |-> s[i], chunk_count |-> rag_files[s[i]].chunk_count]] :
            s \in {t \in [1..n -> S] :
                    /\ \A i, j \in 1..n : i # j => t[i] # t[j]
                    /\ \A i, j \in 1..n :
                         i < j => rag_files[t[i]].last_accessed
                                     =< rag_files[t[j]].last_accessed}}

\* --------------------------------------------------------- vector index
VectorId(file_id, chunk_idx) == <<file_id, chunk_idx>>

\* Mutant: the surviving chunks are numbered by their position among the
\* survivors.
upsert_renumbered(index, file_id, file_info, chunk_idxs) ==
    LET survivors == 0..(Cardinality(chunk_idxs) - 1)
    IN  {v \in index : ~(v.file_id = file_id /\ v.chunk_index \in survivors)}
        \cup {[file_id |-> file_id, chunk_index |-> k,
               domain |-> file_info.domain, sector |-> file_info.sector] :
                 k \in survivors}

\* vector_index.upsert(vectors=vectors_to_upsert): one record per surviving
\* chunk, id f"{file_id}_{chunk_idx}", metadata from file_info; a record with
\* the same id is overwritten.
upsert(index, file_id, file_info, chunk_idxs) ==
    {v \in index : ~(v.file_id = file_id /\ v.chunk_index \in chunk_idxs)}
    \cup {[file_id |-> file_id, chunk_index |-> k,
           domain |-> file_info.domain, sector |-> file_info.sector] :
             k \in chunk_idxs}

\* vector_ids = [f"{file_id}_{i}" for i in range(chunk_count)]
remove_ids(file_id, chunk_count) ==
    {VectorId(file_id, i) : i \in 0..(chunk_count - 1)}

\* vector_index.delete(ids=...): a missing id is a no-op.
delete_ids(index, ids) ==
    {v \in index : VectorId(v.file_id, v.chunk_index) \notin ids}

VectorsOf(index, file_id) == {v \in index : v.file_id = file_id}

\* --------------------------------------------------------------- workers
\* What an operation hands back: a returned value or a raised exception,
\* its error text, its two counters (chunks_created; vectors_loaded and
\* chunks_found; files_cleaned and vectors_removed; chunks_deleted), and
\* the collaborators it called on the way.
NoResult ==
    [outcome |-> "none", error |-> "", count |-> 0, found |-> 0, calls |-> {}]

Returned(error, count, found, calls) ==
    [outcome |-> "returned", error |-> error, count |-> count,
     found |-> found, calls |-> calls]

Raised(error, calls) ==
    [outcome |-> "raised", error |-> error, count |-> 0, found |-> 0,
     calls |-> calls]

IdleTask ==
    [op |-> "none", pc |-> "done", file_id |-> "none",
     domain |-> "none", sector |-> "none", empty_query |-> FALSE,
     chunk_count |-> 0, vectors_to_upsert |-> {}, expired_files |-> <<>>,
     calls |-> {}, files_cleaned |-> 0, vectors_removed |-> 0, result |-> NoResult]

\* An operation returns or raises: its locals go, and its result is what
\* the request handler is about to answer with.
Finish(t, result) ==
    [IdleTask EXCEPT !.op = t.op, !.pc = "respond", !.result = result]

\* What query_rag_compressed answers with, and the calls it made on the
\* compression provider.
NoResponse ==
    [context |-> <<>>, compressed |-> FALSE, chunks_found |-> 0,
     sources |-> <<>>, error |-> "none", provider_calls |-> 0]

\* No retrieval under way.
NoRetrieval ==
    [pc |-> "none", request |-> <<>>, top_k |-> 0, results |-> <<>>,
     filtered_results |-> <<>>, context |-> <<>>, sources |-> <<>>,
     chunks_found |-> 0, error |-> "none",
     compression_provider |-> FALSE, response |-> NoResponse]

Init ==
    /\ scope \in Scopes
    /\ vector_index \in BOOLEAN
    /\ google_ai_ready \in BOOLEAN
    /\ supabase \in BOOLEAN
    /\ rag_files = [f \in Files |-> NoRow]
    /\ vectors = {}
    /\ task = [w \in Workers |-> IdleTask]
    /\ retrieval = NoRetrieval

\* ------------------------------------------------------------ operations
\* Mutant: registration writes the first vector record of the document.
register_file_eager(file_id, domain, sector) ==
    /\ rag_files' = [rag_files EXCEPT ![file_id] = register_row(@, domain, sector)]
    /\ vectors' = upsert(vectors, file_id, [domain |-> domain, sector |-> sector], {0})
    /\ UNCHANGED <<retrieval, scope, vector_index, google_ai_ready, supabase, task>>

\* Database.register_file: one SQL statement.
register_file(file_id, domain, sector) ==
    /\ rag_files' = [rag_files EXCEPT ![file_id] = register_row(@, domain, sector)]
    /\ UNCHANGED <<retrieval, scope, vector_index, google_ai_ready, supabase, vectors, task>>

\* A day passes: every stored timestamp is one day further in the past.
Tick ==
    /\ rag_files' = [f \in Files |->
          IF rag_files[f].last_accessed \in {Null, -MaxTime}
          THEN rag_files[f]
          ELSE [rag_files[f] EXCEPT !.last_accessed = @ - 1]]
    /\ UNCHANGED <<retrieval, scope, vector_index, google_ai_ready, supabase, vectors, task>>

\* vectorize_file up to the upsert: the configuration check, the download,
\* the extraction, the chunking and the per-chunk embedding loop.  dl_ok,
\* text_ok, n and embedded are what storage, the extractor, the splitter and
\* the embedding provider answer: n chunks, of which those with an index in
\* embedded get an embedding.  NoResult: vectors_to_upsert is not empty.
\* Mutant: the embedding loop gives up on the first chunk that fails.
vectorize_outcome_aborts(dl_ok, text_ok, n, embedded) ==
    IF ~vector_index THEN Raised("Vector index not configured", {})
    ELSE IF ~supabase THEN Raised("Supabase not configured", {})
    ELSE IF ~dl_ok THEN Raised("Storage error", {"storage"})
    ELSE IF ~text_ok THEN Raised("No text content extracted", {"storage"})
    ELSE IF n = 0 THEN Raised("No chunks created", {"storage"})
    ELSE IF embedded # 0..(n - 1)
         THEN Raised("No vectors created", {"storage", "embedding"})
    ELSE [NoResult EXCEPT !.calls = {"storage", "embedding"}]

vectorize_outcome(dl_ok, text_ok, n, embedded) ==
    LET embed_calls == IF google_ai_ready THEN {"embedding"} ELSE {}
    IN  IF ~vector_index THEN Raised("Vector index not configured", {})
        ELSE IF ~supabase THEN Raised("Supabase not configured", {})
        ELSE IF ~dl_ok THEN Raised("Storage error", {"storage"})
        ELSE IF ~text_ok THEN Raised("No text content extracted", {"storage"})
        ELSE IF n = 0 THEN Raised("No chunks created", {"storage"})
        ELSE IF embedded = {}
             THEN Raised("No vectors created", {"storage"} \cup embed_calls)
        ELSE [NoResult EXCEPT !.calls = {"storage"} \cup embed_calls]

\* What storage, the extractor, the splitter and the embedding provider can
\* answer to one vectorize_file call; after a failed step the later answers
\* are never asked for.
Answers ==
    {[dl_ok |-> FALSE, text_ok |-> FALSE, n |-> 0, embedded |-> {}],
     [dl_ok |-> TRUE, text_ok |-> FALSE, n |-> 0, embedded |-> {}]}
    \cup {[dl_ok |-> TRUE, text_ok |-> TRUE, n |-> n, embedded |-> e] :
            n \in 0..MaxChunks, e \in SUBSET (0..(MaxChunks - 1))}

\* Mutant: each chunk is written to the index as soon as it is embedded.
force_vectorize_streams(w, file_id, dl_ok, text_ok, n, embedded) ==
    /\ task[w].pc = "done"
    /\ embedded \subseteq 0..(n - 1)
    /\ ~google_ai_ready => embedded = {}
    /\ LET t == [IdleTask EXCEPT !.op = "vectorize", !.file_id = file_id]
           r == vectorize_outcome(dl_ok, text_ok, n, embedded)
       IN  /\ task' = [task EXCEPT ![w] =
                 IF ~rag_files[file_id].exists
                 THEN Finish(t, Raised("File not found", {"registry"}))
                 ELSE IF r.outcome = "raised"
                 THEN Finish(t, [r EXCEPT !.calls = @ \cup {"registry"}])
                 ELSE [t EXCEPT !.pc = "upsert",
                                !.calls = r.calls \cup {"registry"},
                                !.domain = rag_files[file_id].domain,
                                !.sector = rag_files[file_id].sector,
                                !.vectors_to_upsert = embedded]]
           /\ vectors' = IF rag_files[file_id].exists /\ r.outcome # "raised"
                         THEN upsert(vectors, file_id, rag_files[file_id], embedded)
                         ELSE vectors
    /\ UNCHANGED <<retrieval, scope, vector_index, google_ai_ready, supabase, rag_files>>

\* main.force_vectorize: file_info = await db.get_file(file_id), 404 without
\* a row, then vectorize_file(file_id, file_info) up to the upsert.  Between
\* the registry read and the upsert the coroutine touches neither the
\* registry nor the index, so the two are one step.
force_vectorize(w, file_id, dl_ok, text_ok, n, embedded) ==
    /\ task[w].pc = "done"
    /\ embedded \subseteq 0..(n - 1)
    /\ ~google_ai_ready => embedded = {}
    /\ LET t == [IdleTask EXCEPT !.op = "vectorize", !.file_id = file_id]
           r == vectorize_outcome(dl_ok, text_ok, n, embedded)
       IN  task' = [task EXCEPT ![w] =
              IF ~rag_files[file_id].exists
              THEN Finish(t, Raised("File not found", {"registry"}))
              ELSE IF r.outcome = "raised"
              THEN Finish(t, [r EXCEPT !.calls = @ \cup {"registry"}])
              ELSE [t EXCEPT !.pc = "upsert",
                             !.calls = r.calls \cup {"registry"},
                             !.domain = rag_files[file_id].domain,
                             !.sector = rag_files[file_id].sector,
                             !.vectors_to_upsert = embedded]]
    /\ UNCHANGED <<retrieval, scope, vector_index, google_ai_ready, supabase, rag_files, vectors>>

\* Mutant: the registry is marked indexed before the upsert is attempted.
vectorize_upsert_marks_first(w, ok) ==
    /\ task[w].pc = "upsert"
    /\ rag_files' = update_vector_status(rag_files, task[w].file_id, "indexed",
                                         Cardinality(task[w].vectors_to_upsert))
    /\ IF ok
       THEN /\ vectors' = upsert(vectors, task[w].file_id, task[w],
                                 task[w].vectors_to_upsert)
            /\ task' = [task EXCEPT ![w].pc = "update_status",
                                    ![w].calls = @ \cup {"index"}]
       ELSE /\ vectors' = vectors
            /\ task' = [task EXCEPT ![w] =
                  Finish(@, Raised("Upsert failed", @.calls \cup {"index"}))]
    /\ UNCHANGED <<retrieval, scope, vector_index, google_ai_ready, supabase>>

\* vector_index.upsert(vectors=vectors_to_upsert): succeeds, or raises and
\* writes nothing.
vectorize_upsert(w, ok) ==
    /\ task[w].pc = "upsert"
    /\ IF ok
       THEN /\ vectors' = upsert(vectors, task[w].file_id, task[w],
                                 task[w].vectors_to_upsert)
            /\ task' = [task EXCEPT ![w].pc = "update_status",
                                    ![w].calls = @ \cup {"index"}]
       ELSE /\ vectors' = vectors
            /\ task' = [task EXCEPT ![w] =
                  Finish(@, Raised("Upsert failed", @.calls \cup {"index"}))]
    /\ UNCHANGED <<retrieval, scope, vector_index, google_ai_ready, supabase, rag_files>>

\* Mutant: the new chunks are added to the chunk_count of the row.
vectorize_update_adds(w) ==
    /\ task[w].pc = "update_status"
    /\ LET count == rag_files[task[w].file_id].chunk_count
                      + Cardinality(task[w].vectors_to_upsert)
       IN  /\ rag_files' = update_vector_status(rag_files, task[w].file_id,
                                                "indexed", count)
           /\ task' = [task EXCEPT ![w] =
                 Finish(@, Returned("", count, 0, @.calls))]
    /\ UNCHANGED <<retrieval, scope, vector_index, google_ai_ready, supabase, vectors>>

\* await db.update_vector_status(file_id, INDEXED, len(vectors_to_upsert));
\* return len(vectors_to_upsert)
vectorize_update(w) ==
    /\ task[w].pc = "update_status"
    /\ LET count == Cardinality(task[w].vectors_to_upsert)
       IN  /\ rag_files' = update_vector_status(rag_files, task[w].file_id,
                                                "indexed", count)
           /\ task' = [task EXCEPT ![w] =
                 Finish(@, Returned("", count, 0, @.calls))]
    /\ UNCHANGED <<retrieval, scope, vector_index, google_ai_ready, supabase, vectors>>

\* db.get_pending_files(domain.value, sector.value, region_val): the call
\* binds its arguments to the parameters of Database.get_pending_files, and
\* raises TypeError when there are more arguments than parameters.
get_pending_files_call ==
    IF ensure_vectors_loaded_args > get_pending_files_params
    THEN "TypeError" ELSE "rows"

\* query_rag: without a vector index the error result of lines 295-306;
\* otherwise ensure_vectors_loaded, whose first statement is the registry
\* call above.  The TypeError is raised outside every try block of
\* ensure_vectors_loaded and of query_rag, so it leaves query_rag.
\* Mutant: the lazy load runs before the index is looked at.
query_rag_result_loads_first ==
    Raised(get_pending_files_call, {"registry"})

query_rag_result ==
    IF ~vector_index
    THEN Returned("Vector index not configured", 0, 0, {})
    ELSE Raised(get_pending_files_call, {})

query_rag(w, domain, sector, empty_query) ==
    /\ task[w].pc = "done"
    /\ get_pending_files_call = "TypeError" \/ ~vector_index
    /\ task' = [task EXCEPT ![w] =
          [Finish([IdleTask EXCEPT !.op = "query"], query_rag_result)
             EXCEPT !.domain = domain, !.sector = sector,
                    !.empty_query = empty_query]]
    /\ UNCHANGED <<retrieval, scope, vector_index, google_ai_ready, supabase, rag_files, vectors>>

\* cleanup_expired_vectors: expired_files = await db.get_expired_files(days)
cleanup_expired_vectors(w, days) ==
    /\ task[w].pc = "done"
    /\ \E rows \in get_expired_files(days) :
         task' = [task EXCEPT ![w] =
            IF rows = <<>>
            THEN Finish([IdleTask EXCEPT !.op = "cleanup"],
                        Returned("", 0, 0, {"registry"}))
            ELSE [IdleTask EXCEPT !.op = "cleanup", !.pc = "cleanup_remove",
                                  !.calls = {"registry"},
                                  !.expired_files = rows]]
    /\ UNCHANGED <<retrieval, scope, vector_index, google_ai_ready, supabase, rag_files, vectors>>

\* remove_vectors(file_id, chunk_count): nothing without an index or with
\* chunk_count 0; otherwise delete ids 0..chunk_count-1, and a failure of
\* the delete call is logged and swallowed.
remove_vectors(index, file_id, chunk_count, ok) ==
    IF ~vector_index \/ chunk_count = 0 \/ ~ok
    THEN index
    ELSE delete_ids(index, remove_ids(file_id, chunk_count))

remove_vectors_calls(chunk_count) ==
    IF ~vector_index \/ chunk_count = 0 THEN {} ELSE {"index"}

cleanup_remove(w, ok) ==
    /\ task[w].pc = "cleanup_remove"
    /\ LET row == Head(task[w].expired_files)
       IN  vectors' = remove_vectors(vectors, row.id, row.chunk_count, ok)
    /\ task' = [task EXCEPT
          ![w].pc = "cleanup_update",
          ![w].calls = @ \cup remove_vectors_calls(Head(task[w].expired_files).chunk_count)]
    /\ UNCHANGED <<retrieval, scope, vector_index, google_ai_ready, supabase, rag_files>>

\* Mutant: vectors_removed counts one vector per file.
cleanup_update_counts_files(w) ==
    /\ task[w].pc = "cleanup_update"
    /\ LET row == Head(task[w].expired_files)
           rest == Tail(task[w].expired_files)
           cleaned == task[w].files_cleaned + 1
           removed == task[w].vectors_removed + 1
       IN  /\ rag_files' = update_vector_status(rag_files, row.id, "expired", 0)
           /\ task' = [task EXCEPT ![w] =
                 IF rest = <<>>
                 THEN Finish(@, Returned("", cleaned, removed, @.calls))
                 ELSE [@ EXCEPT !.pc = "cleanup_remove",
                                !.expired_files = rest,
                                !.files_cleaned = cleaned,
                                !.vectors_removed = removed]]
    /\ UNCHANGED <<retrieval, scope, vector_index, google_ai_ready, supabase, vectors>>

\* await db.update_vector_status(file_id, EXPIRED, 0); files_cleaned += 1;
\* vectors_removed += chunk_count; next file, or return the counts.
cleanup_update(w) ==
    /\ task[w].pc = "cleanup_update"
    /\ LET row == Head(task[w].expired_files)
           rest == Tail(task[w].expired_files)
           cleaned == task[w].files_cleaned + 1
           removed == task[w].vectors_removed + row.chunk_count
       IN  /\ rag_files' = update_vector_status(rag_files, row.id, "expired", 0)
           /\ task' = [task EXCEPT ![w] =
                 IF rest = <<>>
                 THEN Finish(@, Returned("", cleaned, removed, @.calls))
                 ELSE [@ EXCEPT !.pc = "cleanup_remove",
                                !.expired_files = rest,
                                !.files_cleaned = cleaned,
                                !.vectors_removed = removed]]
    /\ UNCHANGED <<retrieval, scope, vector_index, google_ai_ready, supabase, vectors>>

\* delete_file_completely: file_info = await db.get_file(file_id)
delete_file_completely(w, file_id) ==
    /\ task[w].pc = "done"
    /\ LET t == [IdleTask EXCEPT !.op = "delete", !.file_id = file_id]
       IN  task' = [task EXCEPT ![w] =
              IF ~rag_files[file_id].exists
              THEN Finish(t, Returned("File not found", 0, 0, {"registry"}))
              ELSE [t EXCEPT !.chunk_count = rag_files[file_id].chunk_count,
                             !.calls = {"registry"},
                             !.pc = IF rag_files[file_id].vector_status = "indexed"
                                    THEN "delete_remove" ELSE "delete_row"]]
    /\ UNCHANGED <<retrieval, scope, vector_index, google_ai_ready, supabase, rag_files, vectors>>

\* if vector_status == INDEXED: await remove_vectors(file_id, chunk_count)
delete_remove(w, ok) ==
    /\ task[w].pc = "delete_remove"
    /\ vectors' = remove_vectors(vectors, task[w].file_id, task[w].chunk_count, ok)
    /\ task' = [task EXCEPT
          ![w].pc = "delete_row",
          ![w].calls = @ \cup remove_vectors_calls(task[w].chunk_count)]
    /\ UNCHANGED <<retrieval, scope, vector_index, google_ai_ready, supabase, rag_files>>

\* await db.delete_file(file_id); return success with chunks_deleted
delete_row(w) ==
    /\ task[w].pc = "delete_row"
    /\ rag_files' = delete_file(rag_files, task[w].file_id)
    /\ task' = [task EXCEPT ![w] =
          Finish(@, Returned("", task[w].chunk_count, 0, @.calls))]
    /\ UNCHANGED <<retrieval, scope, vector_index, google_ai_ready, supabase, vectors>>

\* The request handler answers (return, or raise HTTPException) and the
\* worker is free for the next request.
respond(w) ==
    /\ task[w].pc = "respond"
    /\ task' = [task EXCEPT ![w] = IdleTask]
    /\ UNCHANGED <<retrieval, scope, vector_index, google_ai_ready, supabase, rag_files, vectors>>

Next ==
    \/ \E f \in scope.files, d \in scope.domains, s \in Sectors :
          register_file(f, d, s)
    \/ Tick
    \/ \E w \in scope.workers, f \in scope.files, a \in Answers :
          force_vectorize(w, f, a.dl_ok, a.text_ok, a.n, a.embedded)
    \/ \E w \in scope.workers, ok \in BOOLEAN : vectorize_upsert(w, ok)
    \/ \E w \in scope.workers : vectorize_update(w)
    \/ \E w \in scope.workers, d \in scope.domains, s \in Sectors, e \in BOOLEAN :
          query_rag(w, d, s, e)
    \/ \E w \in scope.workers, days \in Days : cleanup_expired_vectors(w, days)
    \/ \E w \in scope.workers, ok \in BOOLEAN : cleanup_remove(w, ok)
    \/ \E w \in scope.workers : cleanup_update(w)
    \/ \E w \in scope.workers, f \in scope.files : delete_file_completely(w, f)
    \/ \E w \in scope.workers, ok \in BOOLEAN : delete_remove(w, ok)
    \/ \E w \in scope.workers : delete_row(w)
    \/ \E w \in scope.workers : respond(w)

Spec == Init /\ [][Next]_vars

\* ============================================================= retrieval
\* The retrieval half of query_rag (services.py lines 325-411) as a function
\* of the request and of what the index answers: the index-side filter, the
\* application-side filter loop and the sources of the result.  A string of
\* comma-joined values is the sequence of its values and its commas.

Regions == {"global", "us", "eu"}
Jurisdictions == {"general", "sec", "gdpr"}
DocumentTypes == {"regulation", "guidance"}
\* Sectors of the records in the index
IndexSectors == {"saas", "fintech"}
\* None for an absent region or document type of the request
None == "none"

\* Scores in units of 0.00001: 0.499, 0.5 and 0.90004.
Scores == {49900, 50000, 90004}
\* if r.score < 0.5: continue
ScoreThreshold == 50000
\* top_k=limit * 3
TopKFactor == 3

MaxLimit == 2
MaxResults == 3

RangeOf(seq) == {seq[i] : i \in DOMAIN seq}

\* ",".join(jurisdictions)
RECURSIVE join(_)
join(list) ==
    IF list = <<>> THEN <<>>
    ELSE IF Len(list) = 1 THEN <<Head(list)>>
    ELSE <<Head(list), ",">> \o join(Tail(list))

\* str.split(","): the pieces between the commas; the empty string gives [""].
RECURSIVE split(_)
split(str) ==
    IF str = <<>> THEN <<"">>
    ELSE IF Head(str) = "," THEN <<"">> \o split(Tail(str))
    ELSE IF Len(str) = 1 THEN <<Head(str)>>
    ELSE <<Head(str)>> \o split(SubSeq(str, 3, Len(str)))

\* round(r.score, 4), ties to even
round4(score) ==
    LET q == score \div 10
        r == score % 10
    IN  IF r > 5 \/ (r = 5 /\ q % 2 = 1) THEN (q + 1) * 10 ELSE q * 10

\* Mutant: a requested list must be contained in the file's list.
matches_jurisdictions_subset(file_jurisdictions, requested_jurisdictions) ==
    IF ~requested_jurisdictions.present \/ requested_jurisdictions.value = <<>>
    THEN TRUE
    ELSE LET file_juris_list == split(file_jurisdictions)
         IN  IF "general" \in RangeOf(file_juris_list) THEN TRUE
             ELSE RangeOf(requested_jurisdictions.value)
                     \subseteq RangeOf(file_juris_list)

\* _matches_jurisdictions(file_jurisdictions, requested_jurisdictions); an
\* Optional list is [present, value].
matches_jurisdictions(file_jurisdictions, requested_jurisdictions) ==
    IF ~requested_jurisdictions.present \/ requested_jurisdictions.value = <<>>
    THEN TRUE
    ELSE LET file_juris_list == split(file_jurisdictions)
         IN  IF "general" \in RangeOf(file_juris_list) THEN TRUE
             ELSE \E i \in DOMAIN requested_jurisdictions.value :
                     requested_jurisdictions.value[i] \in RangeOf(file_juris_list)

\* Mutant: the region of the request is left out of the filter.
build_vector_filter_no_region(domain, sector, region, jurisdictions, document_type) ==
    <<[field |-> "domain", values |-> {domain}],
      [field |-> "sector", values |-> {sector}]>>
    \o (IF document_type # None
        THEN <<[field |-> "document_type", values |-> {document_type}]>>
        ELSE <<>>)

\* _build_vector_filter: the clauses joined by " AND ", each clause a field
\* and the values it admits.
build_vector_filter(domain, sector, region, jurisdictions, document_type) ==
    <<[field |-> "domain", values |-> {domain}],
      [field |-> "sector", values |-> {sector}]>>
    \o (IF region # None /\ region # "global"
        THEN <<[field |-> "region", values |-> {region, "global"}]>> ELSE <<>>)
    \o (IF document_type # None
        THEN <<[field |-> "document_type", values |-> {document_type}]>>
        ELSE <<>>)

\* The index evaluates the filter on the metadata of a record.
filter_admits(vector_filter, metadata) ==
    \A i \in DOMAIN vector_filter :
       metadata[vector_filter[i].field] \in vector_filter[i].values

\* Mutant: the threshold test keeps scores above 0.5 only.
keeps_score_above(r) == r.score > ScoreThreshold

\* if r.score < 0.5: continue -- a result the loop does not skip.
keeps_score(r) == ~(r.score < ScoreThreshold)

\* Mutant: the loop stops at the first result under the threshold or that
\* fails the jurisdiction test.
RECURSIVE filter_loop_prefix(_, _, _, _)
filter_loop_prefix(results, limit, jurisdictions, filtered_results) ==
    IF results = <<>> THEN filtered_results
    ELSE LET r == Head(results)
         IN  IF ~keeps_score(r)
                \/ ~matches_jurisdictions(r.jurisdictions, jurisdictions)
             THEN filtered_results
             ELSE IF Len(filtered_results) + 1 >= limit
                  THEN Append(filtered_results, r)
                  ELSE filter_loop_prefix(Tail(results), limit, jurisdictions,
                                          Append(filtered_results, r))

\* for r in results: skip a score under 0.5, append on a jurisdiction match,
\* break once limit results are kept.
RECURSIVE filter_loop(_, _, _, _)
filter_loop(results, limit, jurisdictions, filtered_results) ==
    IF results = <<>> THEN filtered_results
    ELSE LET r == Head(results)
         IN  IF ~keeps_score(r)
             THEN filter_loop(Tail(results), limit, jurisdictions, filtered_results)
             ELSE LET kept == IF matches_jurisdictions(r.jurisdictions, jurisdictions)
                              THEN Append(filtered_results, r)
                              ELSE filtered_results
                  IN  IF Len(kept) >= limit THEN kept
                      ELSE filter_loop(Tail(results), limit, jurisdictions, kept)

\* One entry of sources.
source_of(r) ==
    [file_id |-> r.file_id,
     score |-> round4(r.score), domain |-> r.domain, sector |-> r.sector,
     region |-> r.region, jurisdictions |-> split(r.jurisdictions),
     document_type |-> r.document_type]

\* Lists of jurisdictions a document is stored with or a request names.
JurisdictionLists ==
    {<<>>} \cup {<<j>> : j \in Jurisdictions} \cup {<<"sec", "gdpr">>}

\* What one behaviour explores: records that differ in what the index-side
\* filter tests, records that differ in what the filter loop tests, or
\* records of several documents with their registry rows.
IndexSideRecords ==
    [file_id : {"f1"}, domain : Domains, sector : IndexSectors, region : Regions,
     document_type : DocumentTypes, jurisdictions : {join(<<"general">>)},
     score : {90004}]

LoopSideRecords ==
    [file_id : {"f1"}, domain : {"legal"}, sector : {"saas"}, region : {"global"},
     document_type : {"guidance"},
     jurisdictions : {join(l) : l \in JurisdictionLists}, score : Scores]

TouchSideRecords ==
    [file_id : Files, domain : {"legal"}, sector : {"saas"}, region : {"global"},
     document_type : {"guidance"}, jurisdictions : {join(<<"general">>)},
     score : Scores]

IndexSideRequests ==
    [records : {IndexSideRecords}, domain : Domains, sector : {"saas"},
     region : Regions \cup {None}, document_type : DocumentTypes \cup {None},
     jurisdictions : {[present |-> FALSE, value |-> <<>>]},
     limit : 1..MaxLimit]

LoopSideRequests ==
    [records : {LoopSideRecords}, domain : {"legal"}, sector : {"saas"},
     region : {None}, document_type : {None},
     jurisdictions : {[present |-> FALSE, value |-> <<>>]}
                     \cup {[present |-> TRUE, value |-> l] : l \in JurisdictionLists},
     limit : 1..MaxLimit]

TouchSideRequests ==
    [records : {TouchSideRecords}, domain : {"legal"}, sector : {"saas"},
     region : {None}, document_type : {None},
     jurisdictions : {[present |-> FALSE, value |-> <<>>]},
     limit : 1..MaxLimit]

\* Rows of documents indexed on an earlier day; a record of the index may
\* also belong to a document whose row is gone.
IndexedRows ==
    {[exists |-> TRUE, domain |-> "legal", sector |-> "saas",
      vector_status |-> "indexed", chunk_count |-> 1, last_accessed |-> -d] :
        d \in 1..MaxTime}

\* Mutant: the update is not issued.
touch_file_skipped(table, file_id) == table

\* UPDATE rag_files SET last_accessed = NOW() WHERE id = $1
touch_file(table, file_id) ==
    IF table[file_id].exists
    THEN [table EXCEPT ![file_id].last_accessed = now]
    ELSE table

\* for file_id in used_file_ids: await db.touch_file(file_id)
RECURSIVE touch_files(_, _)
touch_files(table, used_file_ids) ==
    IF used_file_ids = {} THEN table
    ELSE LET file_id == CHOOSE f \in used_file_ids : TRUE
         IN  touch_files(touch_file(table, file_id), used_file_ids \ {file_id})

InitRetrieve ==
    /\ scope \in {sc \in Scopes : sc.files = Files}
    /\ vector_index = TRUE
    /\ google_ai_ready = TRUE
    /\ supabase = TRUE
    /\ vectors = {}
    /\ task = [w \in Workers |-> IdleTask]
    /\ \E request \in IndexSideRequests \cup LoopSideRequests \cup TouchSideRequests :
         /\ \E provider \in IF request.records = TouchSideRecords
                              THEN BOOLEAN ELSE {FALSE} :
               retrieval = [NoRetrieval EXCEPT !.pc = "query",
                                               !.request = request,
                                               !.compression_provider = provider]
         /\ rag_files \in IF request.records = TouchSideRecords
                           THEN [Files -> IndexedRows \cup {NoRow}]
                           ELSE {[f \in Files |-> NoRow]}

\* vector_index.query(top_k=limit * 3, filter=vector_filter): at most top_k
\* records the filter admits, best score first.
vector_index_query ==
    /\ retrieval.pc = "query"
    /\ LET request == retrieval.request
           vector_filter == build_vector_filter(request.domain, request.sector,
                               request.region, request.jurisdictions,
                               request.document_type)
           top_k == request.limit * TopKFactor
           admitted == {r \in request.records : filter_admits(vector_filter, r)}
           longest == IF top_k < MaxResults THEN top_k ELSE MaxResults
       IN  \E n \in 0..longest :
             \E results \in [1..n -> admitted] :
                /\ \A i \in 1..(n - 1) : results[i].score >= results[i + 1].score
                /\ retrieval' = [retrieval EXCEPT !.pc = "filter",
                                                  !.top_k = top_k,
                                                  !.results = results]
    /\ UNCHANGED <<scope, vector_index, google_ai_ready, supabase, rag_files, vectors, task>>

\* vector_index.query raises: the error result of lines 338-347.
vector_index_query_fails ==
    /\ retrieval.pc = "query"
    /\ retrieval' = [retrieval EXCEPT !.pc = "done",
                                      !.top_k = retrieval.request.limit * TopKFactor,
                                      !.error = "Vector search failed"]
    /\ UNCHANGED <<scope, vector_index, google_ai_ready, supabase, rag_files, vectors, task>>

\* The filter loop of lines 349-359.
filter_results ==
    /\ retrieval.pc = "filter"
    /\ retrieval' = [retrieval EXCEPT
          !.pc = "touch",
          !.filtered_results =
              filter_loop(retrieval.results, retrieval.request.limit,
                          retrieval.request.jurisdictions, <<>>)]
    /\ UNCHANGED <<scope, vector_index, google_ai_ready, supabase, rag_files, vectors, task>>

\* used_file_ids = set(r.metadata.get("file_id") for r in filtered_results)
used_file_ids(filtered_results) ==
    {filtered_results[i].file_id : i \in DOMAIN filtered_results}

\* f"[Source: {source} | Region: {region_info} | Jurisdictions:
\* {juris_info}]\n{chunk_text}": one part of the context, the parts being
\* joined by a separator line.  The empty context is the empty sequence.
context_part(res) ==
    [source |-> res.file_id, region |-> res.region,
     jurisdictions |-> res.jurisdictions]

\* Mutant: every document the index answered with is touched.
touch_used_files_of_results ==
    /\ retrieval.pc = "touch"
    /\ rag_files' = touch_files(rag_files, used_file_ids(retrieval.results))
    /\ retrieval' = [retrieval EXCEPT !.pc = "result"]
    /\ UNCHANGED <<scope, vector_index, google_ai_ready, supabase, vectors, task>>

\* The touch loop of lines 373-375; with nothing kept the function has
\* returned at line 362 and no row is touched.
touch_used_files ==
    /\ retrieval.pc = "touch"
    /\ rag_files' = touch_files(rag_files, used_file_ids(retrieval.filtered_results))
    /\ retrieval' = [retrieval EXCEPT !.pc = "result"]
    /\ UNCHANGED <<scope, vector_index, google_ai_ready, supabase, vectors, task>>

\* The result of lines 361-371 (nothing kept) or 387-411; neither has an
\* error key.
build_result ==
    /\ retrieval.pc = "result"
    /\ LET kept == retrieval.filtered_results
       IN  retrieval' = [retrieval EXCEPT
              !.pc = "done",
              !.context = [i \in DOMAIN kept |-> context_part(kept[i])],
              !.sources = [i \in DOMAIN kept |-> source_of(kept[i])],
              !.chunks_found = Len(kept),
              !.error = None]
    /\ UNCHANGED <<scope, vector_index, google_ai_ready, supabase, rag_files, vectors, task>>

\* formatted_context: the header, the provider's text, the list of sources
\* and the footer, as a context of one part.
formatted_context(sources) ==
    <<[source |-> "Compressed Context", region |-> None, jurisdictions |-> <<>>]>>

\* Mutant: the provider is called before the result is looked at.
compressed_response_eager(rag_result, provider, ok) ==
    LET pass == [context |-> rag_result.context, compressed |-> FALSE,
                 chunks_found |-> rag_result.chunks_found,
                 sources |-> rag_result.sources, error |-> rag_result.error,
                 provider_calls |-> 0]
    IN  IF ~provider THEN pass
        ELSE IF ok
        THEN [pass EXCEPT !.context = formatted_context(rag_result.sources),
                          !.compressed = TRUE, !.error = None,
                          !.provider_calls = 1]
        ELSE [pass EXCEPT !.error = "Compression failed", !.provider_calls = 1]

\* query_rag_compressed past its query_rag call (lines 606-666): the result
\* is passed through when it has an error or no chunk, or when there is no
\* provider; otherwise compress_context is called once, and its failure is
\* caught and reported in the error of the answer.
compressed_response(rag_result, provider, ok) ==
    LET pass == [context |-> rag_result.context, compressed |-> FALSE,
                 chunks_found |-> rag_result.chunks_found,
                 sources |-> rag_result.sources, error |-> rag_result.error,
                 provider_calls |-> 0]
    IN  IF rag_result.error # None \/ rag_result.chunks_found = 0 THEN pass
        ELSE IF ~provider THEN [pass EXCEPT !.error = None]
        ELSE IF ok
        THEN [pass EXCEPT !.context = formatted_context(rag_result.sources),
                          !.compressed = TRUE, !.error = None,
                          !.provider_calls = 1]
        ELSE [pass EXCEPT !.error = "Compression failed", !.provider_calls = 1]

\* Mutant: a failure of the provider leaves no error in the answer.
query_rag_compressed_silent(ok) ==
    /\ retrieval.pc = "done"
    /\ retrieval' = [retrieval EXCEPT
          !.pc = "answered",
          !.response = [compressed_response(retrieval, retrieval.compression_provider, ok)
                          EXCEPT !.error = None]]
    /\ UNCHANGED <<scope, vector_index, google_ai_ready, supabase, rag_files, vectors, task>>

\* ok: whether compress_context returns (True) or raises.
query_rag_compressed(ok) ==
    /\ retrieval.pc = "done"
    /\ retrieval' = [retrieval EXCEPT
          !.pc = "answered",
          !.response = compressed_response(retrieval, retrieval.compression_provider, ok)]
    /\ UNCHANGED <<scope, vector_index, google_ai_ready, supabase, rag_files, vectors, task>>

NextRetrieve ==
    \/ vector_index_query
    \/ vector_index_query_fails
    \/ filter_results
    \/ touch_used_files
    \/ build_result
    \/ \E ok \in BOOLEAN : query_rag_compressed(ok)

SpecRetrieve == InitRetrieve /\ [][NextRetrieve]_vars

\* ------------------------------------------------ user-private documents
\* embed_user_document_chunk, search_user_documents and
\* delete_user_document_vectors work on the same vector index as the corpus
\* operations and on no registry row.
Users == {"A", "B"}
UserDocuments == {"d1", "d2"}
Filenames == {"notes.pdf"}
MaxUserChunks == 2
UserChunkIndexes == 0..(MaxUserChunks - 1)
\* limit of search_user_documents
UserLimits == {1}
\* top_k=limit * 2
UserTopKFactor == 2
\* min_score: float = 0.5
MinScore == 50000

\* vector_id = f"user_{document_id}_{chunk_index}"
user_vector_id(document_id, chunk_index) == <<"user", document_id, chunk_index>>

\* The record embed_user_document_chunk upserts: its id and its metadata.
user_vector(document_id, chunk_index, user_id, filename) ==
    [id |-> user_vector_id(document_id, chunk_index), user_id |-> user_id,
     document_id |-> document_id, chunk_index |-> chunk_index,
     filename |-> filename, type |-> "user_document"]

\* vector_index.upsert(vectors=[...]): the record replaces the one of its id.
user_upsert(index, record) ==
    {v \in index : v.id # record.id} \cup {record}

\* The request of the last user-document operation and what it returned.
UserOutcome(op, request, success, vector_id, results, error) ==
    [op |-> op, request |-> request, success |-> success,
     vector_id |-> vector_id, results |-> results, error |-> error]

NoUserOutcome == UserOutcome("none", <<>>, FALSE, None, <<>>, "none")

\* The user-document operations use neither the registry client nor the
\* corpus rows, which stay as constructed.
InitUser ==
    /\ scope = Files
    /\ vector_index \in BOOLEAN
    /\ google_ai_ready \in BOOLEAN
    /\ supabase = FALSE
    /\ rag_files = [f \in Files |-> NoRow]
    /\ vectors = {}
    /\ task = [w \in Workers |-> IdleTask]
    /\ retrieval = NoUserOutcome

\* embed_user_document_chunk(document_id, chunk_index, user_id, content,
\* filename); blank is "not content or not content.strip()", embeds is
\* whether the embedding call and the upsert go through.
embed_user_document_chunk(document_id, chunk_index, user_id, blank, filename, embeds) ==
    LET request == [user_id |-> user_id, document_id |-> document_id,
                    chunk_index |-> chunk_index, filename |-> filename]
    IN  /\ IF ~vector_index
           THEN /\ retrieval' = UserOutcome("embed", request, FALSE, None, <<>>,
                                            "Vector index not configured")
                /\ vectors' = vectors
           ELSE IF blank
           THEN /\ retrieval' = UserOutcome("embed", request, FALSE, None, <<>>,
                                            "Content cannot be empty")
                /\ vectors' = vectors
           ELSE IF ~google_ai_ready \/ ~embeds
           THEN /\ retrieval' = UserOutcome("embed", request, FALSE, None, <<>>,
                                            "Embedding failed")
                /\ vectors' = vectors
           ELSE /\ vectors' = user_upsert(vectors,
                                 user_vector(document_id, chunk_index, user_id, filename))
                /\ retrieval' = UserOutcome("embed", request, TRUE,
                                    user_vector_id(document_id, chunk_index), <<>>, "none")
        /\ UNCHANGED <<scope, vector_index, google_ai_ready, supabase, rag_files, task>>

\* vector_filter = f"user_id = '{user_id}' AND type = 'user_document'", and
\* with document_ids the OR of their document_id tests.
user_filter_admits(v, user_id, document_ids) ==
    /\ v.user_id = user_id
    /\ v.type = "user_document"
    /\ (document_ids # {} => v.document_id \in document_ids)

\* What the index can answer: top_k of the admitted records (all of them if
\* fewer), each once, by descending score.
UserAnswers(index, user_id, document_ids, top_k) ==
    LET admitted == {v \in index : user_filter_admits(v, user_id, document_ids)}
        n == IF Cardinality(admitted) < top_k THEN Cardinality(admitted) ELSE top_k
    IN  {a \in [1..n -> [metadata : admitted, score : Scores]] :
            /\ \A i, j \in 1..n : i < j =>
                  /\ a[i].metadata # a[j].metadata
                  /\ a[i].score >= a[j].score}

\* for r in results: if r.score >= min_score: append; if len >= limit: break
RECURSIVE user_filter_loop(_, _, _, _)
user_filter_loop(results, limit, min_score, filtered_results) ==
    IF results = <<>> THEN filtered_results
    ELSE LET r == Head(results)
             appended ==
                 IF r.score >= min_score
                 THEN Append(filtered_results,
                             [document_id |-> r.metadata.document_id,
                              chunk_index |-> r.metadata.chunk_index,
                              score |-> round4(r.score),
                              filename |-> r.metadata.filename])
                 ELSE filtered_results
         IN  IF Len(appended) >= limit THEN appended
             ELSE user_filter_loop(Tail(results), limit, min_score, appended)

\* search_user_documents(query, user_id, document_ids, limit, min_score);
\* searches is whether the index query goes through.
search_user_documents(user_id, document_ids, limit, searches) ==
    LET request == [user_id |-> user_id, document_ids |-> document_ids,
                    limit |-> limit]
    IN  /\ IF ~vector_index
           THEN retrieval' = UserOutcome("search", request, FALSE, None, <<>>,
                                         "Vector index not configured")
           ELSE IF ~google_ai_ready
           THEN retrieval' = UserOutcome("search", request, FALSE, None, <<>>,
                                         "Failed to embed query")
           ELSE IF ~searches
           THEN retrieval' = UserOutcome("search", request, FALSE, None, <<>>,
                                         "Search failed")
           ELSE \E results \in UserAnswers(vectors, user_id, document_ids,
                                           limit * UserTopKFactor) :
                    retrieval' = UserOutcome("search", request, TRUE, None,
                                     user_filter_loop(results, limit, MinScore, <<>>),
                                     "none")
        /\ UNCHANGED <<scope, vector_index, google_ai_ready, supabase, rag_files,
                       vectors, task>>

\* delete_user_document_vectors(document_id, chunk_count); deletes is whether
\* the index delete goes through.
delete_user_document_vectors(document_id, chunk_count, deletes) ==
    LET request == [document_id |-> document_id, chunk_count |-> chunk_count]
        vector_ids == {user_vector_id(document_id, i) : i \in 0..(chunk_count - 1)}
    IN  /\ IF ~vector_index
           THEN /\ retrieval' = UserOutcome("delete", request, FALSE, None, <<>>,
                                            "Vector index not configured")
                /\ vectors' = vectors
           ELSE IF ~deletes
           THEN /\ retrieval' = UserOutcome("delete", request, FALSE, None, <<>>,
                                            "Delete failed")
                /\ vectors' = vectors
           ELSE /\ vectors' = {v \in vectors : v.id \notin vector_ids}
                /\ retrieval' = UserOutcome("delete", request, TRUE, None, <<>>, "none")
        /\ UNCHANGED <<scope, vector_index, google_ai_ready, supabase, rag_files, task>>

NextUser ==
    \/ \E document_id \in UserDocuments, chunk_index \in UserChunkIndexes,
          user_id \in Users, blank \in BOOLEAN, filename \in Filenames,
          embeds \in BOOLEAN :
          embed_user_document_chunk(document_id, chunk_index, user_id, blank,
                                    filename, embeds)
    \/ \E user_id \in Users, document_ids \in SUBSET UserDocuments,
          limit \in UserLimits, searches \in BOOLEAN :
          search_user_documents(user_id, document_ids, limit, searches)
    \/ \E document_id \in UserDocuments, chunk_count \in 0..MaxUserChunks,
          deletes \in BOOLEAN :
          delete_user_document_vectors(document_id, chunk_count, deletes)

SpecUser == InitUser /\ [][NextUser]_vars

\* ================================================================ claims
Statuses == {"pending", "indexed", "expired"}

\* No operation is in flight: every worker is free or has only its answer
\* left to give.
AllDone == \A w \in Workers : task[w].pc \in {"done", "respond"}

ChunkIndexes(index, file_id) == {v.chunk_index : v \in VectorsOf(index, file_id)}

\* The documents a query for (domain, sector) is meant to lazy-load.
PendingFor(domain, sector) ==
    {f \in Files : /\ rag_files[f].exists
                   /\ rag_files[f].vector_status = "pending"
                   /\ rag_files[f].domain = domain
                   /\ rag_files[f].sector = sector}

Healthy == vector_index /\ google_ai_ready /\ supabase

\* C1: a query with the vector index configured leaves every pending
\* document of its domain and sector indexed, with a chunk-count of at least
\* one (the chunks that embedded), when the collaborators are available.
C1_QueryIndexesPending ==
    [][\A w \in Workers, d \in Domains, s \in Sectors, e \in BOOLEAN :
         (query_rag(w, d, s, e) /\ Healthy)
            => \A f \in PendingFor(d, s) :
                  /\ rag_files'[f].vector_status = "indexed"
                  /\ rag_files'[f].chunk_count >= 1]_vars

\* C2: every change of a document's vector-status is pending -> indexed,
\* indexed -> expired or expired -> indexed.
C2_OnlyLegalTransitions ==
    [][\A f \in Files :
         LET old == rag_files[f].vector_status
             new == rag_files'[f].vector_status
         IN  (old \in Statuses /\ new \in Statuses /\ old # new)
                => <<old, new>> \in {<<"pending", "indexed">>,
                                     <<"indexed", "expired">>,
                                     <<"expired", "indexed">>}]_vars

\* C3: in every registry state a document's chunk-count is 0 if and only if
\* its vector-status is not indexed.
C3_ChunkCountZeroIffNotIndexed ==
    \A f \in Files :
       rag_files[f].exists
          => (rag_files[f].chunk_count = 0
                 <=> rag_files[f].vector_status # "indexed")

\* C3 witness: a document that was indexed and has been expired by cleanup.
C3_Witness ==
    \E f \in Files, w \in Workers :
       /\ rag_files[f].vector_status = "expired"
       /\ task[w].op = "cleanup" /\ task[w].pc = "respond"
       /\ task[w].result.found >= 1

\* C4: with no operation in flight, a document's chunk-count equals the
\* number of vector records the index holds for it.
C4_ChunkCountIsVectorCount ==
    AllDone
       => \A f \in Files :
             rag_files[f].exists
                => rag_files[f].chunk_count = Cardinality(VectorsOf(vectors, f))

\* C5: when cleanup's delete of a document's id range 0..chunk_count-1
\* succeeds, no vector record of that document remains in the index.
C5_CleanupRemovesEveryVector ==
    [][\A w \in Workers :
         (cleanup_remove(w, TRUE) /\ vector_index)
            => VectorsOf(vectors', Head(task[w].expired_files).id) = {}]_vars

\* A step of worker w in which its vectorize call fails before its registry
\* update: at the start (pc "done") or at the upsert (pc "upsert").
VectorizeFails(w) ==
    /\ task[w].pc \in {"done", "upsert"}
    /\ task'[w].op = "vectorize" /\ task'[w].pc = "respond"
    /\ task'[w].result.outcome = "raised"

\* C6: a vectorize call that fails before the registry update (download,
\* extraction, chunking, every embedding, or the upsert) leaves every
\* registry record as it was.
C6_FailedVectorizeLeavesRegistry ==
    [][\A w \in Workers : VectorizeFails(w) => rag_files' = rag_files]_vars

\* C6 witness: the upsert of the only document failed and the document is
\* still pending, with no vector in the index.
C6_Witness ==
    \E w \in Workers, f \in Files :
       /\ scope.files = {f}
       /\ task[w].op = "vectorize" /\ task[w].pc = "respond"
       /\ task[w].result.error = "Upsert failed"
       /\ rag_files[f].vector_status = "pending"
       /\ rag_files[f].chunk_count = 0
       /\ rag_files[f].last_accessed = Null

\* C7: a chunk whose embedding fails is dropped and the other chunks are
\* embedded and upserted; vectorize raises "No vectors created" exactly when
\* every chunk fails, and otherwise returns the number of surviving chunks.
C7_DroppedChunksOnly ==
    [][\A w \in Workers :
         /\ ( /\ task[w].pc = "done" /\ task'[w].op = "vectorize"
              /\ vector_index /\ supabase )
               => \A f \in scope.files, a \in Answers :
                     ( /\ a.dl_ok /\ a.text_ok /\ a.n >= 1
                       /\ rag_files[f].exists
                       /\ force_vectorize(w, f, a.dl_ok, a.text_ok, a.n, a.embedded) )
                        => /\ task'[w].result.error = "No vectors created"
                                 <=> a.embedded = {}
                           /\ a.embedded # {}
                                 => /\ task'[w].pc = "upsert"
                                    /\ task'[w].vectors_to_upsert = a.embedded
         /\ (task[w].pc = "upsert" /\ task'[w].pc = "update_status")
               => task[w].vectors_to_upsert
                     \subseteq ChunkIndexes(vectors', task[w].file_id)
         /\ (task[w].pc = "update_status" /\ task'[w].pc = "respond")
               => /\ task'[w].result.outcome = "returned"
                  /\ task'[w].result.count
                        = Cardinality(task[w].vectors_to_upsert)]_vars

\* C7 witness: chunk 0 failed to embed, chunk 1 survived and is in the index.
C7_Witness ==
    \E w \in Workers :
       /\ task[w].pc = "update_status"
       /\ task[w].vectors_to_upsert = {1}
       /\ \E v \in vectors : v.file_id = task[w].file_id /\ v.chunk_index = 1

\* C8: a query over a batch of pending documents returns a result whose
\* vectorsLoaded is the number of documents it newly indexed, and it
\* vectorizes the batch (with the collaborators available, some document).
C8_LazyLoadCountsSuccesses ==
    [][\A w \in Workers, d \in Domains, s \in Sectors, e \in BOOLEAN :
         (query_rag(w, d, s, e) /\ Healthy /\ Cardinality(PendingFor(d, s)) >= 2)
            => /\ task'[w].result.outcome = "returned"
               /\ task'[w].result.count
                     = Cardinality({f \in PendingFor(d, s) :
                                      rag_files'[f].vector_status = "indexed"})]_vars

\* C9: with the embedding provider unconfigured, a query returns a result
\* with chunksFound 0, an error and vectorsLoaded 0, and downloads nothing,
\* also when documents are pending for its domain and sector.
C9_UnconfiguredEmbeddingResult ==
    [][\A w \in Workers, d \in Domains, s \in Sectors, e \in BOOLEAN :
         (query_rag(w, d, s, e) /\ ~google_ai_ready /\ PendingFor(d, s) # {})
            => /\ task'[w].result.outcome = "returned"
               /\ task'[w].result.error # ""
               /\ task'[w].result.found = 0
               /\ task'[w].result.count = 0
               /\ "storage" \notin task'[w].result.calls]_vars

\* C10: a query with empty text is rejected with an error result before any
\* collaborator is called.
C10_EmptyQueryRejected ==
    [][\A w \in Workers, d \in Domains, s \in Sectors :
         query_rag(w, d, s, TRUE)
            => /\ task'[w].result.outcome = "returned"
               /\ task'[w].result.error # ""
               /\ task'[w].result.calls = {}
               /\ rag_files' = rag_files /\ vectors' = vectors]_vars

\* C11: a query returns a result object and never lets an exception reach
\* its caller.
C11_QueryNeverRaises ==
    [][\A w \in Workers, d \in Domains, s \in Sectors, e \in BOOLEAN :
         query_rag(w, d, s, e) => task'[w].result.outcome = "returned"]_vars

\* C12: a query whose text cannot be embedded (provider unconfigured, or
\* empty text) returns an error result with chunksFound 0, without querying
\* the index and without changing any last_accessed.
C12_QueryEmbeddingFailure ==
    [][\A w \in Workers, d \in Domains, s \in Sectors, e \in BOOLEAN :
         (query_rag(w, d, s, e) /\ vector_index /\ (e \/ ~google_ai_ready))
            => /\ task'[w].result.outcome = "returned"
               /\ task'[w].result.error # ""
               /\ task'[w].result.found = 0
               /\ "index" \notin task'[w].result.calls
               /\ \A f \in Files :
                     rag_files'[f].last_accessed = rag_files[f].last_accessed]_vars

\* C13: without a vector index a query returns the error result with
\* vectorsLoaded 0 and chunksFound 0, calls no collaborator and leaves the
\* registry and the index as they were.
C13_NoIndexNoLazyLoad ==
    [][\A w \in Workers, d \in Domains, s \in Sectors, e \in BOOLEAN :
         (query_rag(w, d, s, e) /\ ~vector_index)
            => /\ task'[w].result
                     = Returned("Vector index not configured", 0, 0, {})
               /\ rag_files' = rag_files /\ vectors' = vectors]_vars

\* C13 witness: a query answered "Vector index not configured" while a
\* document of its domain and sector is pending.
C13_Witness ==
    \E w \in Workers :
       /\ ~vector_index
       /\ task[w].op = "query" /\ task[w].pc = "respond"
       /\ task[w].result.error = "Vector index not configured"
       /\ PendingFor(task[w].domain, task[w].sector) # {}

\* The list of jurisdictions a record was stored with.
StoredJurisdictions(r) ==
    RangeOf(CHOOSE l \in JurisdictionLists : join(l) = r.jurisdictions)

\* The jurisdiction test as the specification words it.
JurisdictionKeeps(r, requested) ==
    \/ ~requested.present
    \/ requested.value = <<>>
    \/ "general" \in StoredJurisdictions(r)
    \/ StoredJurisdictions(r) \cap RangeOf(requested.value) # {}

Filtered == retrieval.pc \in {"touch", "result", "done"}

\* C14: the jurisdiction post-filter passes a result exactly when no
\* jurisdiction is requested, or the result is tagged general, or its tags
\* and the requested jurisdictions overlap; every kept result passes, and
\* while fewer than limit are kept every passing result with a passing score
\* is kept.
C14_JurisdictionOverlapOrGeneral ==
    Filtered
       => LET requested == retrieval.request.jurisdictions
              results == retrieval.results
              kept == retrieval.filtered_results
          IN  /\ \A i \in DOMAIN results :
                    matches_jurisdictions(results[i].jurisdictions, requested)
                       <=> JurisdictionKeeps(results[i], requested)
              /\ \A i \in DOMAIN kept : JurisdictionKeeps(kept[i], requested)
              /\ Len(kept) < retrieval.request.limit
                    => \A i \in DOMAIN results :
                          ( /\ results[i].score >= ScoreThreshold
                            /\ JurisdictionKeeps(results[i], requested) )
                             => results[i] \in RangeOf(kept)

\* C14 witness: a query for {sec} returns a document tagged {general} and
\* not the one tagged {gdpr}.
C14_Witness ==
    /\ retrieval.pc = "done"
    /\ retrieval.request.jurisdictions.value = <<"sec">>
    /\ \E i \in DOMAIN retrieval.sources :
          retrieval.sources[i].jurisdictions = <<"general">>
    /\ \E i \in DOMAIN retrieval.results :
          /\ retrieval.results[i].jurisdictions = <<"gdpr">>
          /\ retrieval.results[i].score >= ScoreThreshold
          /\ retrieval.results[i] \notin RangeOf(retrieval.filtered_results)
    /\ retrieval.request.limit > Len(retrieval.filtered_results)

\* C15: every source of a result has the domain and the sector of the
\* request; with a region other than global named, the region of every
\* source is that region or global; with the region absent or global the
\* filter has no region clause; with a document type named, every source has
\* that document type.
C15_SourcesMatchIndexFilter ==
    LET request == retrieval.request
    IN  retrieval.pc = "done"
           => /\ \A i \in DOMAIN retrieval.sources :
                    LET src == retrieval.sources[i]
                    IN  /\ src.domain = request.domain
                        /\ src.sector = request.sector
                        /\ request.region \notin {None, "global"}
                              => src.region \in {request.region, "global"}
                        /\ request.document_type # None
                              => src.document_type = request.document_type
              /\ request.region \in {None, "global"}
                    => LET vector_filter ==
                              build_vector_filter(request.domain, request.sector,
                                  request.region, request.jurisdictions,
                                  request.document_type)
                       IN  \A i \in DOMAIN vector_filter :
                              vector_filter[i].field # "region"

\* C15 witness: a request for region us and document type guidance returns a
\* source of region us and a source of region global.
C15_Witness ==
    /\ retrieval.pc = "done"
    /\ retrieval.request.region = "us"
    /\ retrieval.request.document_type = "guidance"
    /\ \E i, j \in DOMAIN retrieval.sources :
          /\ retrieval.sources[i].region = "us"
          /\ retrieval.sources[j].region = "global"

\* C16: the filter loop keeps no result with a score under 0.5 and no source
\* has one; while fewer than limit results are kept, a result with a score
\* of 0.5 or more that passes the jurisdiction test is kept.
C16_ScoreAtLeastHalf ==
    Filtered
       => LET requested == retrieval.request.jurisdictions
              results == retrieval.results
              kept == retrieval.filtered_results
          IN  /\ \A i \in DOMAIN kept : kept[i].score >= 50000
              /\ \A i \in DOMAIN retrieval.sources :
                    retrieval.sources[i].score >= 50000
              /\ Len(kept) < retrieval.request.limit
                    => \A i \in DOMAIN results :
                          ( /\ results[i].score >= 50000
                            /\ matches_jurisdictions(results[i].jurisdictions,
                                                     requested) )
                             => results[i] \in RangeOf(kept)

\* C16 witness: of two results, the one with score 0.5 is returned and the
\* one with score 0.499 is not.
C16_Witness ==
    /\ retrieval.pc = "done"
    /\ Len(retrieval.results) = 2
    /\ retrieval.results[1].score = 50000
    /\ retrieval.results[2].score = 49900
    /\ Len(retrieval.sources) = 1
    /\ retrieval.sources[1].score = 50000

\* C17: the index is asked for limit*3 neighbours and answers with no more;
\* the kept results are the first limit (or all, if fewer) results, in rank
\* order, that pass the score and the jurisdiction tests; chunksFound is the
\* number of sources and is at most limit.
C17_FirstLimitInRankOrder ==
    retrieval.pc = "done"
       => LET request == retrieval.request
              Passes(r) == /\ r.score >= ScoreThreshold
                           /\ JurisdictionKeeps(r, request.jurisdictions)
              passing == SelectSeq(retrieval.results, Passes)
              count == IF Len(passing) < request.limit
                       THEN Len(passing) ELSE request.limit
          IN  /\ retrieval.top_k = request.limit * 3
              /\ Len(retrieval.results) =< retrieval.top_k
              /\ retrieval.filtered_results = SubSeq(passing, 1, count)
              /\ Len(retrieval.sources) = Len(retrieval.filtered_results)
              /\ retrieval.chunks_found = Len(retrieval.sources)
              /\ retrieval.chunks_found =< request.limit

\* C17 witness: limit 2 and three results, the second failing the
\* jurisdiction test: the first and the third are returned.
C17_Witness ==
    /\ retrieval.pc = "done"
    /\ retrieval.request.limit = 2
    /\ Len(retrieval.results) = 3
    /\ ~matches_jurisdictions(retrieval.results[2].jurisdictions,
                              retrieval.request.jurisdictions)
    /\ retrieval.filtered_results
          = <<retrieval.results[1], retrieval.results[3]>>
    /\ retrieval.chunks_found = 2

\* C18: the touch loop of a query that kept results sets last_accessed of
\* every document with a kept chunk to the time of the query and leaves the
\* row of every other document as it was.
C18_TouchesReturnedDocuments ==
    [][touch_used_files
         => \A f \in Files :
               IF /\ rag_files[f].exists
                  /\ \E i \in DOMAIN retrieval.filtered_results :
                        retrieval.filtered_results[i].file_id = f
               THEN rag_files'[f] = [rag_files[f] EXCEPT !.last_accessed = now]
               ELSE rag_files'[f] = rag_files[f]]_vars

\* C18 witness: a chunk of f1 is returned and a chunk of f2 is dropped for
\* its score: f1 is accessed today, f2 was last accessed on an earlier day.
C18_Witness ==
    /\ retrieval.pc = "done"
    /\ \E i \in DOMAIN retrieval.sources : retrieval.sources[i].file_id = "f1"
    /\ \E i \in DOMAIN retrieval.results : retrieval.results[i].file_id = "f2"
    /\ \A i \in DOMAIN retrieval.sources : retrieval.sources[i].file_id # "f2"
    /\ rag_files["f1"].exists /\ rag_files["f1"].last_accessed = now
    /\ rag_files["f2"].exists /\ rag_files["f2"].last_accessed < now

\* C19: cleanup never sets to expired a document whose last_accessed is
\* within the retention period at the moment cleanup acts on it.  A row
\* accessed at the present time is within every retention period.
C19_RecentlyAccessedNeverExpired ==
    [][\A w \in Workers :
         LET file_id == Head(task[w].expired_files).id
         IN  (/\ task[w].pc = "cleanup_update"
              /\ cleanup_update(w)
              /\ rag_files[file_id].exists
              /\ rag_files[file_id].last_accessed = now)
                 => rag_files'[file_id].vector_status # "expired"]_vars

\* C20: cleanup(days) takes exactly the indexed documents older than
\* now - days with the chunk counts they have at that moment, sets each of
\* them (that still has a row) to expired with chunk_count 0, and returns
\* the number of those documents and the sum of those chunk counts.  While
\* no other request runs, the documents still to be acted on stay as taken.
C20_CleanupExpiresAndCounts ==
    [][\A w \in Workers :
           /\ \A days \in Days :
                (/\ task[w].pc = "done"
                 /\ task'[w].op = "cleanup"
                 /\ cleanup_expired_vectors(w, days))
                   => IF expired_ids(days) = {}
                      THEN /\ task'[w].result.outcome = "returned"
                           /\ task'[w].result.count = 0
                           /\ task'[w].result.found = 0
                      ELSE LET rows == task'[w].expired_files
                           IN  /\ Len(rows) = Cardinality(expired_ids(days))
                               /\ {rows[i].id : i \in DOMAIN rows} = expired_ids(days)
                               /\ \A i \in DOMAIN rows :
                                    rows[i].chunk_count = rag_files[rows[i].id].chunk_count
                               /\ task'[w].files_cleaned = 0
                               /\ task'[w].vectors_removed = 0
           /\ (scope.workers = {w} /\ task[w].pc \in {"cleanup_remove", "cleanup_update"})
                => \A i \in DOMAIN task[w].expired_files :
                     LET row == task[w].expired_files[i]
                     IN  /\ rag_files[row.id].exists
                         /\ rag_files[row.id].vector_status = "indexed"
                         /\ rag_files[row.id].chunk_count = row.chunk_count
           /\ (task[w].pc = "cleanup_update" /\ cleanup_update(w))
                => LET row == Head(task[w].expired_files)
                       cleaned == task[w].files_cleaned + 1
                       removed == task[w].vectors_removed + row.chunk_count
                   IN  /\ rag_files[row.id].exists
                            => /\ rag_files'[row.id].vector_status = "expired"
                               /\ rag_files'[row.id].chunk_count = 0
                       /\ \A f \in Files \ {row.id} : rag_files'[f] = rag_files[f]
                       /\ IF Tail(task[w].expired_files) = <<>>
                          THEN /\ task'[w].result.outcome = "returned"
                               /\ task'[w].result.count = cleaned
                               /\ task'[w].result.found = removed
                          ELSE /\ task'[w].files_cleaned = cleaned
                               /\ task'[w].vectors_removed = removed
                               /\ task'[w].expired_files = Tail(task[w].expired_files)]_vars

\* C20 witness: a lone cleanup run has expired two documents that had one
\* and two chunks and answers with 2 files and 3 vectors.
C20_Witness ==
    /\ scope.workers = {"w1"}
    /\ task["w1"].op = "cleanup"
    /\ task["w1"].pc = "respond"
    /\ task["w1"].result.outcome = "returned"
    /\ task["w1"].result.count = 2
    /\ task["w1"].result.found = 3
    /\ \A f \in Files : /\ rag_files[f].vector_status = "expired"
                        /\ rag_files[f].chunk_count = 0

\* The expired documents a query for (domain, sector) is meant to re-load.
ExpiredFor(domain, sector) ==
    {f \in Files : /\ rag_files[f].exists
                   /\ rag_files[f].vector_status = "expired"
                   /\ rag_files[f].domain = domain
                   /\ rag_files[f].sector = sector}

\* C21: the query that follows a cleanup re-vectorizes every expired
\* document of its domain and sector: the document is indexed again with a
\* chunk-count of at least one, and the query returns a result.
C21_QueryReindexesExpired ==
    [][\A w \in Workers, d \in Domains, s \in Sectors :
         (query_rag(w, d, s, FALSE) /\ Healthy)
            => \A f \in ExpiredFor(d, s) :
                  /\ rag_files'[f].vector_status = "indexed"
                  /\ rag_files'[f].chunk_count >= 1
                  /\ task'[w].result.outcome = "returned"]_vars

\* The ids of the vector records of a document.
VectorIds(index, file_id) ==
    {VectorId(v.file_id, v.chunk_index) : v \in VectorsOf(index, file_id)}

\* The document of a vectorize call is indexed with the chunks this call
\* embedded: the same number of chunks in the row, every id in the index.
AlreadyIndexedAs(w) ==
    LET file_id == task[w].file_id
    IN  /\ rag_files[file_id].exists
        /\ rag_files[file_id].vector_status = "indexed"
        /\ rag_files[file_id].chunk_count = Cardinality(task[w].vectors_to_upsert)
        /\ task[w].vectors_to_upsert \subseteq ChunkIndexes(vectors, file_id)

C23_ConcurrentQueriesIndexOnce ==
    (/\ scope.workers = Workers
     /\ Healthy
     /\ \A w \in Workers : task[w].op = "query" /\ task[w].pc = "respond")
       => \A f \in scope.files :
             (/\ rag_files[f].exists
              /\ \A w \in Workers : /\ task[w].domain = rag_files[f].domain
                                    /\ task[w].sector = rag_files[f].sector)
                => /\ rag_files[f].vector_status = "indexed"
                   /\ rag_files[f].chunk_count = Cardinality(VectorsOf(vectors, f))

\* C24: registering an identifier that has a row sets the row's domain and
\* sector and leaves its vector-status, chunk-count and last_accessed, every
\* other row and the vector index as they were.
C24_ReRegisterKeepsStatus ==
    [][\A f \in Files, d \in Domains, s \in Sectors :
         (rag_files[f].exists /\ register_file(f, d, s))
            => /\ rag_files'[f] = [rag_files[f] EXCEPT !.domain = d, !.sector = s]
               /\ rag_files'[f].vector_status = rag_files[f].vector_status
               /\ rag_files'[f].chunk_count = rag_files[f].chunk_count
               /\ \A g \in Files \ {f} : rag_files'[g] = rag_files[g]
               /\ vectors' = vectors]_vars

\* C24 witness: a document indexed as legal with two chunks has been
\* registered again as finance: still indexed with two chunks, and its two
\* records carry the domain they were written with.
C24_Witness ==
    /\ AllDone
    /\ rag_files["f1"].vector_status = "indexed"
    /\ rag_files["f1"].chunk_count = 2
    /\ rag_files["f1"].domain = "finance"
    /\ Cardinality(VectorsOf(vectors, "f1")) = 2
    /\ \A v \in VectorsOf(vectors, "f1") : v.domain = "legal"

\* C25: registering an identifier that has no row creates the row with
\* status pending, chunk-count 0 and no access time and writes no vector
\* record; the only step that adds a vector record of a document is the
\* upsert of a vectorize call on that document.
C25_RegisterCreatesPendingOnly ==
    [][/\ \A f \in Files, d \in Domains, s \in Sectors :
            (~rag_files[f].exists /\ register_file(f, d, s))
               => /\ rag_files'[f] = [exists |-> TRUE, domain |-> d, sector |-> s,
                                      vector_status |-> "pending", chunk_count |-> 0,
                                      last_accessed |-> Null]
                  /\ vectors' = vectors
       /\ \A f \in Files :
            ~(VectorsOf(vectors', f) \subseteq VectorsOf(vectors, f))
               => \E w \in Workers : /\ task[w].op = "vectorize"
                                     /\ task[w].pc = "upsert"
                                     /\ task[w].file_id = f]_vars

\* C25 witness: f2 has just been registered, pending with no vector, next
\* to f1, which a vectorize call has indexed.
C25_Witness ==
    /\ AllDone
    /\ rag_files["f2"].exists
    /\ rag_files["f2"].vector_status = "pending"
    /\ rag_files["f2"].chunk_count = 0
    /\ rag_files["f2"].last_accessed = Null
    /\ VectorsOf(vectors, "f2") = {}
    /\ rag_files["f1"].vector_status = "indexed"
    /\ VectorsOf(vectors, "f1") # {}

\* C26: deleteFile on an indexed document, with the index configured and its
\* delete call succeeding, leaves no vector record of that document in the
\* index.
C26_DeleteRemovesEveryVector ==
    [][\A w \in Workers :
         (/\ scope.workers = {w}
          /\ task[w].pc = "delete_remove"
          /\ vector_index
          /\ delete_remove(w, TRUE))
            => VectorsOf(vectors', task[w].file_id) = {}]_vars

\* C27: with one pending document of the query's domain and sector and the
\* collaborators available, the query loads it before it searches: it
\* returns vectorsLoaded 1 and chunksFound >= 1.
C27_LazyLoadVisibleToSameQuery ==
    [][\A w \in Workers, d \in Domains, s \in Sectors :
         (/\ query_rag(w, d, s, FALSE)
          /\ Healthy
          /\ Cardinality(PendingFor(d, s)) = 1
          /\ ExpiredFor(d, s) = {})
            => /\ task'[w].result.outcome = "returned"
               /\ task'[w].result.count = 1
               /\ task'[w].result.found >= 1]_vars

\* C28: when no result of the index survives the filter loop, the touch
\* step updates no row and the query's result has an empty context, no
\* sources, chunks_found 0 and no error.
C28_NothingKeptEmptySuccess ==
    [][/\ (touch_used_files /\ retrieval.filtered_results = <<>>)
            => rag_files' = rag_files
       /\ (build_result /\ retrieval.filtered_results = <<>>)
            => /\ retrieval'.context = <<>>
               /\ retrieval'.sources = <<>>
               /\ retrieval'.chunks_found = 0
               /\ retrieval'.error = None]_vars

\* C28 witness: the index answered with a chunk of f1, whose score is too
\* low; the result is empty and f1 keeps its earlier access time.
C28_Witness ==
    /\ retrieval.pc = "done"
    /\ retrieval.results # <<>>
    /\ \A i \in DOMAIN retrieval.results : retrieval.results[i].file_id = "f1"
    /\ retrieval.filtered_results = <<>>
    /\ retrieval.context = <<>>
    /\ retrieval.sources = <<>>
    /\ retrieval.chunks_found = 0
    /\ retrieval.error = None
    /\ rag_files["f1"].exists
    /\ rag_files["f1"].last_accessed < now

\* C29: the compressed query answers with the context and the sources of
\* the underlying query, compressed False, and makes no call on the
\* compression provider, whenever there is no provider, or the underlying
\* query has an error, or it found no chunk.
C29_CompressionPassThrough ==
    (/\ retrieval.pc = "answered"
     /\ \/ ~retrieval.compression_provider
        \/ retrieval.error # None
        \/ retrieval.chunks_found = 0)
       => /\ retrieval.response.context = retrieval.context
          /\ retrieval.response.sources = retrieval.sources
          /\ retrieval.response.compressed = FALSE
          /\ retrieval.response.provider_calls = 0

\* C29 witness: a provider is configured and the index query failed: the
\* answer passes the error result through and the provider was not called.
C29_Witness ==
    /\ retrieval.pc = "answered"
    /\ retrieval.compression_provider
    /\ retrieval.error = "Vector search failed"
    /\ retrieval.response.error = "Vector search failed"
    /\ retrieval.response.context = <<>>
    /\ retrieval.response.compressed = FALSE
    /\ retrieval.response.provider_calls = 0

\* The states a compressed query with chunks and a provider ends in when
\* the provider's call fails: the provider was called and nothing was compressed.
ProviderFailed ==
    /\ retrieval.pc = "answered"
    /\ retrieval.compression_provider
    /\ retrieval.response.provider_calls = 1
    /\ ~retrieval.response.compressed

\* C30: when the provider is configured and its call fails, the compressed
\* query answers with compressed False, the context and the sources of the
\* underlying query, and an error.
C30_CompressionFailureReported ==
    ProviderFailed
       => /\ retrieval.response.context = retrieval.context
          /\ retrieval.response.sources = retrieval.sources
          /\ retrieval.response.chunks_found = retrieval.chunks_found
          /\ retrieval.response.error # None

\* C30 witness: Scenario E with one chunk found.
C30_Witness ==
    /\ ProviderFailed
    /\ retrieval.chunks_found = 1
    /\ Len(retrieval.response.context) = 1
    /\ retrieval.response.context = retrieval.context
    /\ Len(retrieval.response.sources) = 1
    /\ retrieval.response.error = "Compression failed"

\* C31: a query, with the index and storage configured, attempts the
\* vectorization (starting with the download) of the pending and expired
\* documents of its domain and sector, and changes the vector-status and
\* chunk-count of no other document.
C31_LazyLoadAttemptsExactlyPending ==
    [][\A w \in Workers, d \in Domains, s \in Sectors :
         (query_rag(w, d, s, FALSE) /\ vector_index /\ supabase)
            => /\ (PendingFor(d, s) \cup ExpiredFor(d, s) # {})
                     => "storage" \in task'[w].result.calls
               /\ \A f \in Files \ (PendingFor(d, s) \cup ExpiredFor(d, s)) :
                     /\ rag_files'[f].vector_status = rag_files[f].vector_status
                     /\ rag_files'[f].chunk_count = rag_files[f].chunk_count]_vars

\* C32: a step of cleanup changes neither the row nor the vector records
\* of a document that is pending or expired.
C32_CleanupLeavesOthersAlone ==
    [][\A w \in Workers :
         (/\ task[w].op = "cleanup"
          /\ (cleanup_update(w) \/ \E ok \in BOOLEAN : cleanup_remove(w, ok)))
            => \A f \in Files :
                  (/\ rag_files[f].exists
                   /\ rag_files[f].vector_status \in {"pending", "expired"})
                     => /\ rag_files'[f] = rag_files[f]
                        /\ VectorsOf(vectors', f) = VectorsOf(vectors, f)]_vars

\* C33: the upsert of a vectorize call writes one record per surviving
\* chunk, under the id made of the document id and the chunk's position in
\* the original chunk list, which is also its chunk_index; no two records
\* of the index have the same id.
C33_VectorIdsByOriginalPosition ==
    [][\A w \in Workers :
         (/\ task[w].op = "vectorize"
          /\ task[w].pc = "upsert"
          /\ vectorize_upsert(w, TRUE))
            => LET file_id == task[w].file_id
                   written == VectorsOf(vectors', file_id) \ VectorsOf(vectors, file_id)
                   kept == VectorsOf(vectors', file_id) \ written
               IN  /\ {v.chunk_index : v \in written} \subseteq task[w].vectors_to_upsert
                   /\ task[w].vectors_to_upsert \subseteq ChunkIndexes(vectors', file_id)
                   /\ \A v \in kept : v \in vectors
                   /\ {VectorId(v.file_id, v.chunk_index) : v \in VectorsOf(vectors', file_id)}
                         = {VectorId(v.file_id, v.chunk_index) : v \in VectorsOf(vectors, file_id)}
                              \cup {VectorId(file_id, k) : k \in task[w].vectors_to_upsert}
                   /\ \A v1, v2 \in vectors' :
                         VectorId(v1.file_id, v1.chunk_index)
                            = VectorId(v2.file_id, v2.chunk_index) => v1 = v2]_vars

\* C33 witness: of two chunks only the second embedded; its record is in
\* the index under chunk index 1 and none under chunk index 0.
C33_Witness ==
    \E w \in Workers :
       /\ task[w].op = "vectorize"
       /\ task[w].pc = "update_status"
       /\ task[w].vectors_to_upsert = {1}
       /\ ChunkIndexes(vectors, task[w].file_id) = {1}

\* C34: when the index delete call of a cleanup run failed for a document
\* (the records it was to delete are still in the index), the run does not
\* mark the document expired and does not count it.
C34_ExpiredOnlyAfterDelete ==
    [][\A w \in Workers :
         LET row == Head(task[w].expired_files)
         IN  (/\ scope.workers = {w}
              /\ task[w].pc = "cleanup_update"
              /\ cleanup_update(w)
              /\ remove_ids(row.id, row.chunk_count) \cap VectorIds(vectors, row.id) # {})
                 => /\ rag_files'[row.id].vector_status # "expired"
                    /\ IF Tail(task[w].expired_files) = <<>>
                       THEN /\ task'[w].result.count = task[w].files_cleaned
                            /\ task'[w].result.found = task[w].vectors_removed
                       ELSE /\ task'[w].files_cleaned = task[w].files_cleaned
                            /\ task'[w].vectors_removed = task[w].vectors_removed]_vars

\* C35: when a cleanup run and a vectorize call on the same document have
\* interleaved and both have ended, the registry does not report the
\* document indexed with a chunk-count above 0 while the index holds none
\* of its records.
C35_CleanupVectorizeRaceSafe ==
    (/\ scope.workers = Workers
     /\ \E w1, w2 \in Workers :
           /\ task[w1].op = "cleanup" /\ task[w1].pc = "respond"
           /\ task[w2].op = "vectorize" /\ task[w2].pc = "respond")
       => \A f \in scope.files :
             (/\ rag_files[f].exists
              /\ rag_files[f].vector_status = "indexed"
              /\ rag_files[f].chunk_count > 0)
                => VectorsOf(vectors, f) # {}

C37_VectorMetadataMatchesRegistry ==
    AllDone
       => \A f \in Files :
             (rag_files[f].exists /\ rag_files[f].vector_status = "indexed")
                => \A v \in VectorsOf(vectors, f) :
                      /\ v.domain = rag_files[f].domain
                      /\ v.sector = rag_files[f].sector

\* C38: a document that is still pending or expired, as a failed
\* vectorization leaves it, is attempted again by a later query for its
\* domain and sector and, the collaborators being available, is indexed
\* when that query ends.
C38_FailedDocumentRetriedByQuery ==
    [][\A w \in Workers, d \in Domains, s \in Sectors :
         (/\ task[w].pc = "done"
          /\ Healthy
          /\ query_rag(w, d, s, FALSE))
            => \A f \in PendingFor(d, s) \cup ExpiredFor(d, s) :
                  /\ "storage" \in task'[w].result.calls
                  /\ rag_files'[f].vector_status = "indexed"]_vars

\* C39: a vectorize call writes nothing to the index before its upsert:
\* the step that downloads, extracts, chunks and embeds leaves the index as
\* it was, whether it ends in a failure or with vectors to upsert.
C39_NoPartialIndexWrite ==
    [][\A w \in Workers :
         (/\ task[w].pc = "done"
          /\ task'[w].op = "vectorize"
          /\ task'[w].pc \in {"respond", "upsert"})
            => vectors' = vectors]_vars

\* C39 witness: every chunk of a registered document failed to embed; the
\* call has raised and the index holds no record of the document.
C39_Witness ==
    \E w \in Workers :
       /\ task[w].op = "vectorize"
       /\ task[w].pc = "respond"
       /\ task[w].result.outcome = "raised"
       /\ task[w].result.error = "No vectors created"
       /\ "embedding" \in task[w].result.calls
       /\ \A f \in scope.files : rag_files[f].exists /\ VectorsOf(vectors, f) = {}

\* C40: an embed of a user-private chunk by one user leaves every vector
\* record owned by a different user unchanged, whatever the document id and
\* the chunk index.
C40_EmbedLeavesOtherUsersVectors ==
    [][\A v \in vectors :
         (/\ retrieval'.op = "embed"
          /\ v.type = "user_document"
          /\ v.user_id # retrieval'.request.user_id)
            => v \in vectors']_vars

====
